---- MODULE Spec2Model ----
(***************************************************************************)
(* The historical ETL of backend/scripts/etl_historical.py: the three      *)
(* get-or-create resolvers, load_race_weekend with its five sub-loaders,   *)
(* load_season and main, run on the single SQLAlchemy session they share.  *)
(*                                                                         *)
(* Text is a sequence of one-character strings, so that the key            *)
(* derivations (lower, replace, strip) are computed.  A provider cell is a *)
(* tagged record: a number, NaN/NaT, a duration or a non-numeric string.   *)
(* Stored rows keep the columns that carry identity, foreign keys,         *)
(* constraints and times; columns that are copied through unchanged        *)
(* (status, compound, humidity, ...) are left out.                         *)
(***************************************************************************)
EXTENDS Integers, Sequences, FiniteSets, TLC

VARIABLES
    db,        \* the committed rows of the nine tables
    pending,   \* rows the shared session has added or flushed, not committed
    pc,        \* position of the running load_race_weekend, "idle" between calls
    i,         \* index of the roster row the driver/team pass is at
    cur,       \* arguments, race id and provider sessions of the running call
    season,    \* load_season: its year and the events still to process
    ncalls,    \* number of load_race_weekend invocations so far
    steps,     \* steps the latest call went through, in order
    failed,    \* sub-loaders of the latest call that caught an exception
    outcome,   \* how the latest call ended
    returned,  \* every resolver call so far: <<kind, derived key, id returned>>
    last,      \* the latest completed call: its key, the row counts and whether
               \* the race was stored when it ended, whether the call before
               \* it had the same key
    main,      \* main: the years it has still to load and the summary it printed
    log        \* the latest sub-loader run: its name, the count it printed as
               \* loaded and, for the lap times, the driver queries it issued

vars == <<db, pending, pc, i, cur, season, ncalls, steps, failed, outcome,
          returned, last, main, log>>

\* ------------------------------------------------------------------ bounds
MaxCalls == 3

\* ------------------------------------------------------- python / pandas values
Num(n) == [tag |-> "num", val |-> n]
Dur(n) == [tag |-> "td", val |-> n]
NaNCell == [tag |-> "nan", val |-> 0]
StrCell == [tag |-> "str", val |-> 0]
\* a list or array of two values or more
ListCell == [tag |-> "list", val |-> 0]
Null == [tag |-> "null", val |-> 0]
\* in the place of a value: the evaluation raised
Raised == [tag |-> "raise", val |-> 0]
NullId == 0
NaNText == <<"NaN">>
\* pd.isna(x) alone, without the test for an empty value
MissingNaNOnly(x) == x = NaNText
\* pd.isna(x) or not x, for a text cell
Missing(x) == x = NaNText \/ x = <<>>

notna(c) == c.tag # "nan"
\* int(x) / float(x) of a cell that is not NaN: a non-numeric string raises ValueError
Raises(c) == c.tag = "str"

LowerChar(c) ==
    CASE c = "H" -> "h" [] c = "A" -> "a" [] c = "M" -> "m" [] c = "V" -> "v"
      [] c = "N" -> "n" [] c = "S" -> "s" [] c = "R" -> "r" [] c = "B" -> "b"
      [] c = "G" -> "g" [] c = "P" -> "p" [] c = "L" -> "l"
      [] OTHER -> c
lower(s) == [k \in 1..Len(s) |-> LowerChar(s[k])]
replace(s, old, new) == [k \in 1..Len(s) |-> IF s[k] = old THEN new ELSE s[k]]
remove(s, ch) == SelectSeq(s, LAMBDA c : c # ch)

RECURSIVE lstrip(_)
lstrip(s) == IF s # <<>> /\ Head(s) = " " THEN lstrip(Tail(s)) ELSE s
RECURSIVE rstrip(_)
rstrip(s) ==
    IF s # <<>> /\ s[Len(s)] = " " THEN rstrip(SubSeq(s, 1, Len(s) - 1)) ELSE s
strip(s) == rstrip(lstrip(s))

\* ------------------------------------------------------------------ session
Tables == {"circuits", "drivers", "teams", "races", "qualifying_results",
           "race_results", "lap_times", "pit_stops", "weather"}
NoRows == [t \in Tables |-> <<>>]

\* What a query of the session sees: committed rows and, by autoflush, its own.
View(s) == [t \in Tables |-> s.db[t] \o s.pending[t]]
NextId(s, t) == Len(s.db[t]) + Len(s.pending[t]) + 1
add(s, t, row) == [s EXCEPT !.pending[t] = Append(@, row)]

\* unique=True columns: circuit_key, driver_number (NULLs are distinct), team_key
UniqueViolated(v) ==
    \/ \E a, b \in 1..Len(v.circuits) :
        a < b /\ v.circuits[a].circuit_key = v.circuits[b].circuit_key
    \/ \E a, b \in 1..Len(v.drivers) :
        /\ a < b
        /\ v.drivers[a].driver_number.tag = "num"
        /\ v.drivers[a].driver_number = v.drivers[b].driver_number
    \/ \E a, b \in 1..Len(v.teams) :
        a < b /\ v.teams[a].team_key = v.teams[b].team_key
\* nullable=False columns that the loaders can leave null
NotNullViolated(v) ==
    \/ \E a \in 1..Len(v.lap_times) : v.lap_times[a].lap_number.tag = "null"
    \/ \E a \in 1..Len(v.pit_stops) : v.pit_stops[a].lap_number.tag = "null"
    \/ \E t \in {"qualifying_results", "race_results", "lap_times", "pit_stops"} :
        \E a \in 1..Len(v[t]) : v[t][a].driver_id = NullId
\* what the flush of the session rejects, given the rows it sees
IntegrityError(s) == \E v \in {View(s)} : UniqueViolated(v) \/ NotNullViolated(v)

commit(s) == [db |-> View(s), pending |-> NoRows]
RollbackSkipped(s) == s
rollback(s) == [db |-> s.db, pending |-> NoRows]

Counts(d) == [t \in Tables |-> Len(d[t])]

\* --------------------------------------------------------------- resolvers
\* A resolver call ends as [s, raised, ret]: the session, whether it raised,
\* and the row returned as a sequence of length one (<<>> is None).
Result(s, raised, ret) == [s |-> s, raised |-> raised, ret |-> ret]

CircuitKey(name) ==
    replace(remove(replace(lower(name), " ", "_"), "'"), "-", "_")

get_or_create_circuit(s, event) ==
    LET circuit_key == CircuitKey(event.EventName)
        q == SelectSeq(View(s).circuits, LAMBDA c : c.circuit_key = circuit_key)
        circuit == [id |-> NextId(s, "circuits"), circuit_key |-> circuit_key,
                    name |-> event.EventName]
        s1 == add(s, "circuits", circuit)
    IN  IF q # <<>> THEN Result(s, FALSE, <<Head(q)>>)
        ELSE IF IntegrityError(s1) THEN Result(s1, TRUE, <<>>)
        ELSE Result(commit(s1), FALSE, <<circuit>>)

\* get_or_create_driver with update-on-conflict: a stored driver takes the
\* number of the descriptor.
get_or_create_driver_updating(s, driver_abbr, driver_info) ==
    IF Missing(driver_abbr) THEN Result(s, FALSE, <<>>)
    ELSE
    LET code == strip(driver_abbr)
        q == SelectSeq(View(s).drivers, LAMBDA d : d.code = code)
        info == Head(driver_info)
        driver_number ==
            IF notna(info.DriverNumber) /\ ~Raises(info.DriverNumber)
            THEN info.DriverNumber ELSE Null
        driver == [id |-> NextId(s, "drivers"), driver_number |-> driver_number,
                   code |-> code]
        updated == [k \in 1..Len(s.db.drivers) |->
                       IF s.db.drivers[k].code = code
                       THEN [s.db.drivers[k] EXCEPT !.driver_number = driver_number]
                       ELSE s.db.drivers[k]]
        s1 == add(s, "drivers", driver)
    IN  IF q # <<>> /\ driver_info # <<>>
        THEN Result([s EXCEPT !.db.drivers = updated], FALSE, <<Head(q)>>)
        ELSE IF q # <<>> THEN Result(s, FALSE, <<Head(q)>>)
        ELSE IF driver_info = <<>> THEN Result(s, FALSE, <<>>)
        ELSE IF IntegrityError(s1) THEN Result(s1, TRUE, <<>>)
        ELSE Result(commit(s1), FALSE, <<driver>>)

get_or_create_driver(s, driver_abbr, driver_info) ==
    IF Missing(driver_abbr) THEN Result(s, FALSE, <<>>)
    ELSE
    LET code == strip(driver_abbr)
        q == SelectSeq(View(s).drivers, LAMBDA d : d.code = code)
        info == Head(driver_info)
        driver_number ==
            IF notna(info.DriverNumber) /\ ~Raises(info.DriverNumber)
            THEN info.DriverNumber ELSE Null
        driver == [id |-> NextId(s, "drivers"), driver_number |-> driver_number,
                   code |-> code]
        s1 == add(s, "drivers", driver)
    IN  IF q # <<>> THEN Result(s, FALSE, <<Head(q)>>)
        ELSE IF driver_info = <<>> THEN Result(s, FALSE, <<>>)
        ELSE IF IntegrityError(s1) THEN Result(s1, TRUE, <<>>)
        ELSE Result(commit(s1), FALSE, <<driver>>)

TeamKey(name) == replace(replace(lower(name), " ", "_"), "-", "_")

get_or_create_team(s, team_name) ==
    IF Missing(team_name) THEN Result(s, FALSE, <<>>)
    ELSE
    LET name == strip(team_name)
        team_key == TeamKey(name)
        q == SelectSeq(View(s).teams, LAMBDA t : t.team_key = team_key)
        team == [id |-> NextId(s, "teams"), team_key |-> team_key, name |-> name]
        s1 == add(s, "teams", team)
    IN  IF q # <<>> THEN Result(s, FALSE, <<Head(q)>>)
        ELSE IF IntegrityError(s1) THEN Result(s1, TRUE, <<>>)
        ELSE Result(commit(s1), FALSE, <<team>>)

\* ------------------------------------------------------------ unit normalizer
\* Line 21 is outside the try: pd.isna of a list is an array, whose truth
\* value `if` cannot take (ValueError).  Lines 23-26: total_seconds() of a
\* duration, None for a value that has no such method.
convert_timedelta_to_seconds(td) ==
    IF td.tag = "list" THEN Raised
    ELSE IF td.tag \in {"nan", "null"} THEN Null
    ELSE IF td.tag = "td" THEN Num(td.val)
    ELSE Null

\* value of  int(x) if pd.notna(x) else None  where int(x) does not raise
IntOrNone(c) == IF notna(c) THEN Num(c.val) ELSE Null

\* -------------------------------------------------------------- sub-loaders
\* A loop ends as [s, raised]; a sub-loader as [s, ok].  A query first flushes
\* the rows the session holds, and so raises what the flush raises.
Loop(s, raised) == [s |-> s, raised |-> raised]
\* [s, ok, raised]: ok is false when the loader caught an exception; raised is
\* true when an exception leaves the loader, which its try/except never allows.
\* count is <<n>> for the n of the sub-loader's last line,
\* print(f"Loaded {n} ..."), which is reached when ok; lookups is <<q>> for q
\* driver queries issued; both are <<>> where there is no such number.
Loaded(s, ok, raised) ==
    [s |-> s, ok |-> ok, raised |-> raised, count |-> <<>>, lookups |-> <<>>]
Reported(l, n, lookups) == [l EXCEPT !.count = <<n>>, !.lookups = lookups]
\* the number of rows of table t a loop has added to the session s
Added(s, r, t) == NextId(r.s, t) - NextId(s, t)

\* session_obj.query(Driver).filter_by(code=...).first() of the sub-loaders
DriverUnfiltered(s, code) == View(s).drivers
DriverByCode(s, code) == SelectSeq(View(s).drivers, LAMBDA d : d.code = code)
\* session_obj.query(Team).filter_by(name=...).first() of load_race_results
TeamByName(s, name) == SelectSeq(View(s).teams, LAMBDA t : t.name = name)

RECURSIVE QualifyingRows(_, _, _, _)
QualifyingRows(s, race_id, rows, k) ==
    IF k > Len(rows) THEN Loop(s, FALSE)
    ELSE IF IntegrityError(s) THEN Loop(s, TRUE)
    ELSE
    LET row == rows[k]
        q == DriverByCode(s, row.Abbreviation)
        quali_result ==
            [id |-> NextId(s, "qualifying_results"), race_id |-> race_id,
             driver_id |-> Head(q).id, position |-> IntOrNone(row.Position),
             q1_time |-> convert_timedelta_to_seconds(row.Q1)]
    IN  IF q = <<>> THEN QualifyingRows(s, race_id, rows, k + 1)
        ELSE IF notna(row.Position) /\ Raises(row.Position) THEN Loop(s, TRUE)
        ELSE IF quali_result.q1_time = Raised THEN Loop(s, TRUE)
        ELSE QualifyingRows(add(s, "qualifying_results", quali_result),
                            race_id, rows, k + 1)

\* The end of every sub-loader: commit, or the except branch that rolls back.
FinishReraises(r) ==
    IF r.raised \/ IntegrityError(r.s) THEN Loaded(r.s, FALSE, TRUE)
    ELSE Loaded(commit(r.s), TRUE, FALSE)
Finish(r) ==
    IF r.raised \/ IntegrityError(r.s) THEN Loaded(rollback(r.s), FALSE, FALSE)
    ELSE Loaded(commit(r.s), TRUE, FALSE)

load_qualifying_results(s, race_id, quali_session) ==
    Reported(Finish(QualifyingRows(s, race_id, quali_session.results, 1)),
             Len(quali_session.results), <<>>)

RECURSIVE RaceResultRows(_, _, _, _)
RaceResultRows(s, race_id, rows, k) ==
    IF k > Len(rows) THEN Loop(s, FALSE)
    ELSE IF IntegrityError(s) THEN Loop(s, TRUE)
    ELSE
    LET row == rows[k]
        q == DriverByCode(s, row.Abbreviation)
        team == TeamByName(s, row.TeamName)
        race_result ==
            [id |-> NextId(s, "race_results"), race_id |-> race_id,
             driver_id |-> Head(q).id,
             team_id |-> IF team # <<>> THEN Head(team).id ELSE NullId,
             final_position |-> IntOrNone(row.Position)]
    IN  IF q = <<>> THEN RaceResultRows(s, race_id, rows, k + 1)
        ELSE IF notna(row.Position) /\ Raises(row.Position) THEN Loop(s, TRUE)
        ELSE RaceResultRows(add(s, "race_results", race_result),
                            race_id, rows, k + 1)

load_race_results(s, race_id, race_session) ==
    Reported(Finish(RaceResultRows(s, race_id, race_session.results, 1)),
             Len(race_session.results), <<>>)

\* race_session.laps.pick_driver(driver_abbr)
pick_driver(laps, driver_abbr) == SelectSeq(laps, LAMBDA lap : lap.Driver = driver_abbr)

RECURSIVE DriverLapRows(_, _, _, _, _)
DriverLapRows(s, race_id, driver, laps, k) ==
    IF k > Len(laps) THEN Loop(s, FALSE)
    ELSE
    LET lap == laps[k]
        lap_time_entry ==
            [id |-> NextId(s, "lap_times"), race_id |-> race_id,
             driver_id |-> driver.id, lap_number |-> IntOrNone(lap.LapNumber),
             lap_time |-> convert_timedelta_to_seconds(lap.LapTime)]
    IN  IF notna(lap.LapNumber) /\ Raises(lap.LapNumber) THEN Loop(s, TRUE)
        ELSE IF lap_time_entry.lap_time = Raised THEN Loop(s, TRUE)
        ELSE DriverLapRows(add(s, "lap_times", lap_time_entry),
                           race_id, driver, laps, k + 1)

\* a loop that has made n calls of session_obj.query(Driver)
Queried(r, n) == [s |-> r.s, raised |-> r.raised, lookups |-> n]

\* The query of line 243 is made once in each pass of the outer loop, the
\* k-th pass making the k-th query; a query whose flush raises was made.
RECURSIVE LapTimeRows(_, _, _, _, _)
LapTimeRows(s, race_id, all_drivers, laps, k) ==
    IF k > Len(all_drivers) THEN Queried(Loop(s, FALSE), k - 1)
    ELSE IF IntegrityError(s) THEN Queried(Loop(s, TRUE), k)
    ELSE
    LET driver_abbr == all_drivers[k]
        q == DriverByCode(s, driver_abbr)
        r == DriverLapRows(s, race_id, Head(q), pick_driver(laps, driver_abbr), 1)
    IN  IF q = <<>> THEN LapTimeRows(s, race_id, all_drivers, laps, k + 1)
        ELSE IF r.raised THEN Queried(r, k)
        ELSE LapTimeRows(r.s, race_id, all_drivers, laps, k + 1)

\* r is the outcome of the loop, which is run once
load_lap_times_sample(s, race_id, race_session) ==
    LET all_drivers == [k \in 1..Len(race_session.results) |->
                            race_session.results[k].Abbreviation]
    IN  CHOOSE l \in {Reported(Finish(r), Added(s, r, "lap_times"), <<r.lookups>>) :
                        r \in {LapTimeRows(s, race_id, all_drivers,
                                           race_session.laps, 1)}} : TRUE

RECURSIVE PitStopRows(_, _, _, _)
PitStopRows(s, race_id, pit_stops, k) ==
    IF k > Len(pit_stops) THEN Loop(s, FALSE)
    ELSE IF IntegrityError(s) THEN Loop(s, TRUE)
    ELSE
    LET lap == pit_stops[k]
        q == DriverByCode(s, lap.Driver)
        pit_stop ==
            [id |-> NextId(s, "pit_stops"), race_id |-> race_id,
             driver_id |-> Head(q).id, lap_number |-> IntOrNone(lap.LapNumber)]
    IN  IF q = <<>> THEN PitStopRows(s, race_id, pit_stops, k + 1)
        ELSE IF notna(lap.LapNumber) /\ Raises(lap.LapNumber) THEN Loop(s, TRUE)
        ELSE PitStopRows(add(s, "pit_stops", pit_stop), race_id, pit_stops, k + 1)

load_pit_stops(s, race_id, race_session) ==
    LET pit_stops == SelectSeq(race_session.laps, LAMBDA lap : lap.PitOutTime)
    IN  CHOOSE l \in {Reported(Finish(r), Added(s, r, "pit_stops"), <<>>) :
                        r \in {PitStopRows(s, race_id, pit_stops, 1)}} : TRUE

Stride == 10
\* weather_data.iloc[::10]: the samples at positions 0, 10, 20, ...
EveryTenth(series) ==
    LET pos == SelectSeq([p \in 1..Len(series) |-> p - 1], LAMBDA p : p % Stride = 0)
    IN  [k \in 1..Len(pos) |-> series[pos[k] + 1]]

RECURSIVE WeatherRows(_, _, _, _)
WeatherRows(s, race_id, samples, k) ==
    IF k > Len(samples) THEN Loop(s, FALSE)
    ELSE
    LET row == samples[k]
        weather_entry ==
            [id |-> NextId(s, "weather"), race_id |-> race_id,
             air_temp |-> IntOrNone(row.AirTemp)]
    IN  IF notna(row.AirTemp) /\ Raises(row.AirTemp) THEN Loop(s, TRUE)
        ELSE WeatherRows(add(s, "weather", weather_entry), race_id, samples, k + 1)

\* race_session.weather is <<>> when the session has no weather (None),
\* and <<series>> otherwise.
load_weather_data(s, race_id, race_session) ==
    IF race_session.weather = <<>> THEN Loaded(s, TRUE, FALSE)
    ELSE CHOOSE l \in {Reported(Finish(r), Added(s, r, "weather"), <<>>) :
                         r \in {WeatherRows(s, race_id,
                                            EveryTenth(Head(race_session.weather)), 1)}} : TRUE

\* ----------------------------------------------------------------- provider
\* fastf1: the schedule of each year and the sessions of a weekend.
MonacoGP == <<"M", "A", " ", "G", "P">>
MonacoGPHyphen == <<"M", "A", "-", "G", "P">>
SpaGP == <<"S", "P", "A", "'", "G", "P">>
EventNames == {MonacoGP, MonacoGPHyphen, SpaGP}
Years == {2023, 2024}

Event(name, round) == [EventName |-> name, RoundNumber |-> round]
\* the provider knows the events of two years and none of the others
get_event_schedule(year) ==
    IF year = 2023 THEN <<Event(SpaGP, 1)>>
    ELSE IF year = 2024 THEN <<Event(MonacoGP, 1), Event(MonacoGPHyphen, 2)>>
    ELSE <<>>

HAM == <<"H", "A", "M">>
HAMSpaced == <<" ", "H", "A", "M">>
VAN == <<"V", "A", "N">>
SAR == <<"S", "A", "R">>
RedBull == <<"R", " ", "B">>
RedBullHyphen == <<"R", "-", "B", " ">>
McLaren == <<"M", "L">>

ResultRow(abbr, number, team, position) ==
    [Abbreviation |-> abbr, DriverNumber |-> number, TeamName |-> team,
     Position |-> position]
QualiRow(abbr, position, q1) == [Abbreviation |-> abbr, Position |-> position, Q1 |-> q1]
LapRow(driver, number, time, pitout) ==
    [Driver |-> driver, LapNumber |-> number, LapTime |-> time, PitOutTime |-> pitout]
\* a weather series of n samples; sample p (from 0) has AirTemp p
WeatherSeries(n) == [p \in 1..n |-> [AirTemp |-> Num(p - 1)]]
Weekend(quali, results, laps, weather) ==
    [quali |-> [results |-> quali],
     race |-> [results |-> results, laps |-> laps, weather |-> weather]]

\* A clean weekend: two drivers, a qualifying row of a driver outside the roster.
WeekendA ==
    Weekend(<<QualiRow(HAM, Num(1), Dur(80)), QualiRow(SAR, Num(2), NaNCell)>>,
            <<ResultRow(HAM, Num(44), RedBull, Num(1)),
              ResultRow(VAN, Num(2), McLaren, Num(2))>>,
            <<LapRow(HAM, Num(1), Dur(90), FALSE), LapRow(HAM, Num(2), Dur(91), TRUE),
              LapRow(VAN, Num(1), NaNCell, FALSE)>>,
            <<WeatherSeries(47)>>)
\* A driver who reuses car number 2, padded names, a non-numeric qualifying
\* position, a lap without a lap number, no weather.
WeekendB ==
    Weekend(<<QualiRow(SAR, Num(1), Dur(81)), QualiRow(HAM, StrCell, NaNCell)>>,
            <<ResultRow(SAR, Num(2), RedBullHyphen, NaNCell),
              ResultRow(HAMSpaced, NaNCell, <<>>, Num(1))>>,
            <<LapRow(SAR, Num(1), Dur(95), FALSE), LapRow(SAR, NaNCell, Dur(92), TRUE)>>,
            <<>>)
\* A non-numeric finishing position, a roster row without driver code and team,
\* a pit lap of a driver outside the roster without a lap number, a non-numeric
\* air temperature after the first sample.
WeekendC ==
    Weekend(<<QualiRow(HAM, NaNCell, StrCell)>>,
            <<ResultRow(HAM, StrCell, RedBull, StrCell),
              ResultRow(<<>>, Num(7), NaNText, Num(3))>>,
            <<LapRow(HAM, Num(1), Dur(93), FALSE), LapRow(VAN, NaNCell, Dur(94), TRUE)>>,
            <<[p \in 1..11 |-> [AirTemp |-> IF p = 11 THEN StrCell ELSE Num(p - 1)]]>>)
Weekends == {WeekendA, WeekendB, WeekendC}

\* which provider call raises: none, get_event_schedule, quali.load(), race.load()
ProviderOutcomes == {"ok", "schedule", "Q", "R"}

\* --------------------------------------------------------- load_race_weekend
Session == [db |-> db, pending |-> pending]
NoCall == [year |-> 0, race_name |-> <<>>, race_id |-> NullId, data |-> <<>>]
NoRecord == [key |-> <<>>, counts |-> Counts(NoRows), stored |-> FALSE,
             repeated |-> FALSE, load |-> "none", retried |-> "none"]
NoSeason == [year |-> 0, todo |-> <<>>]
NoLog == [name |-> "none", count |-> <<>>, lookups |-> <<>>]

RaceStored(d, key) ==
    \E k \in 1..Len(d.races) : <<d.races[k].year, d.races[k].race_name>> = key

ExistingRaceMissed(s, year, race_name) == <<>>
existing_race(s, year, race_name) ==
    SelectSeq(View(s).races, LAMBDA r : r.year = year /\ r.race_name = race_name)

Call(kind, key, r) ==
    [kind |-> kind, key |-> key, raised |-> r.raised,
     id |-> IF r.ret = <<>> THEN NullId ELSE Head(r.ret).id]

\* Lines 338-344 with the loop left at the first failed race.
SeasonEndsOnFailure(q, how) ==
    IF Len(q.todo) > 1 /\ how # "error" THEN [q EXCEPT !.todo = Tail(@)] ELSE NoSeason
\* Lines 338-344: the for loop of load_season goes on to the next race name
\* however the call of load_race_weekend ended.
next_race(q, how) ==
    IF Len(q.todo) > 1 THEN [q EXCEPT !.todo = Tail(@)] ELSE NoSeason

\* Lines 128-147 with the race row added and committed before the sessions
\* are loaded.
RaceEntryBeforeLoad(s, race_entry) == commit(add(s, "races", race_entry))
\* Lines 128-147: quali.load() and race.load() are called before the race row
\* is added, on the session as the existence check left it.
session_at_load(s, race_entry) == s

\* The call returns or, through the handler of lines 178-180, ends; load is
\* the provider session whose load() raised, if one did.
EndsAt(key, s, how, load) ==
    /\ season' = next_race(season, how)
    /\ db' = s.db
    /\ pending' = s.pending
    /\ pc' = "idle"
    /\ i' = 1
    /\ cur' = NoCall
    /\ outcome' = how
    /\ last' = [key |-> key, counts |-> Counts(s.db),
                stored |-> RaceStored(s.db, key), repeated |-> key = last.key,
                load |-> load,
                retried |-> IF key = last.key THEN last.load ELSE "none"]
Ends(key, s, how) == EndsAt(key, s, how, "none")

\* Line 113 without the selection by name: the first event of the schedule.
AnyEvent(schedule, race_name) == schedule
\* schedule[schedule['EventName'] == race_name], of which line 113 takes the
\* first row: .iloc[0] raises IndexError when there is none
event_named(schedule, race_name) ==
    SelectSeq(schedule, LAMBDA e : e.EventName = race_name)

\* Lines 110-148: schedule, circuit, existence check, provider sessions, race row.
load_race_weekend(year, race_name, provider, data) ==
    /\ pc = "idle"
    /\ ncalls < MaxCalls
    /\ season.todo # <<>> => (year = season.year /\ race_name = Head(season.todo))
    /\ ncalls' = ncalls + 1
    /\ failed' = {}
    /\ log' = NoLog
    /\ UNCHANGED main
    /\ LET key == <<year, race_name>>
           match == event_named(get_event_schedule(year), race_name)
       IN  IF provider = "schedule" \/ match = <<>>
           THEN /\ Ends(key, rollback(Session), "error")
                /\ steps' = <<>>
                /\ UNCHANGED returned
           ELSE
           \E event \in {Head(match)} :
           \E c \in {get_or_create_circuit(Session, event)} :
           LET race_entry == [id |-> NextId(c.s, "races"), year |-> year,
                              round_number |-> event.RoundNumber,
                              race_name |-> race_name, circuit_id |-> Head(c.ret).id]
               s1 == add(c.s, "races", race_entry)
           IN   /\ returned' = returned \cup {Call("circuit", CircuitKey(race_name), c)}
                /\ IF c.raised
                   THEN Ends(key, rollback(c.s), "error") /\ steps' = <<>>
                   ELSE IF existing_race(c.s, year, race_name) # <<>>
                   THEN Ends(key, c.s, "skipped") /\ steps' = <<"circuit">>
                   ELSE IF provider \in {"Q", "R"}
                   THEN /\ EndsAt(key, rollback(session_at_load(c.s, race_entry)),
                                  "error", provider)
                        /\ steps' = <<"circuit">>
                   ELSE IF IntegrityError(s1)
                   THEN Ends(key, rollback(s1), "error") /\ steps' = <<"circuit">>
                   ELSE /\ db' = commit(s1).db
                        /\ pending' = commit(s1).pending
                        /\ cur' = [year |-> year, race_name |-> race_name,
                                   race_id |-> race_entry.id, data |-> data]
                        /\ steps' = <<"circuit", "race">>
                        /\ outcome' = "running"
                        /\ i' = 1
                        /\ pc' = IF data.race.results = <<>> THEN "quali" ELSE "drivers"
                        /\ UNCHANGED <<last, season>>

\* Lines 152-154: one row of the roster, its driver and its team.
resolve_driver_and_team ==
    /\ pc = "drivers"
    /\ \E row \in {cur.data.race.results[i]} :
       \E d \in {get_or_create_driver(Session, row.Abbreviation, <<row>>)} :
       \E t \in {get_or_create_team(d.s, row.TeamName)} :
       LET key == <<cur.year, cur.race_name>>
           dcall == Call("driver", IF Missing(row.Abbreviation) THEN <<>>
                                   ELSE strip(row.Abbreviation), d)
           tcall == Call("team", IF Missing(row.TeamName) THEN <<>>
                                 ELSE TeamKey(strip(row.TeamName)), t)
       IN  IF d.raised
           THEN /\ Ends(key, rollback(d.s), "error")
                /\ returned' = returned \cup {dcall}
                /\ steps' = Append(steps, "drivers")
           ELSE IF t.raised
           THEN /\ Ends(key, rollback(t.s), "error")
                /\ returned' = returned \cup {dcall, tcall}
                /\ steps' = Append(steps, "drivers")
           ELSE /\ db' = t.s.db
                /\ pending' = t.s.pending
                /\ returned' = returned \cup {dcall, tcall}
                /\ IF i = Len(cur.data.race.results)
                   THEN pc' = "quali" /\ i' = 1 /\ steps' = Append(steps, "drivers")
                   ELSE pc' = pc /\ i' = i + 1 /\ steps' = steps
                /\ UNCHANGED <<cur, outcome, last, season>>
    /\ UNCHANGED <<ncalls, failed, main, log>>

\* Lines 156-180: one sub-loader has run and ended as r; the next step follows,
\* or the handler of load_race_weekend if an exception left the sub-loader.
SubLoader(name, r, next) ==
    /\ pc = name
    /\ steps' = Append(steps, name)
    /\ failed' = IF r.ok THEN failed ELSE failed \cup {name}
    /\ returned' = returned
    /\ log' = [name |-> name, count |-> IF r.ok THEN r.count ELSE <<>>,
                lookups |-> r.lookups]
    /\ IF r.raised
       THEN Ends(<<cur.year, cur.race_name>>, rollback(r.s), "error")
       ELSE IF next = "idle"
       THEN Ends(<<cur.year, cur.race_name>>, r.s, "done")
       ELSE /\ db' = r.s.db
            /\ pending' = r.s.pending
            /\ pc' = next
            /\ UNCHANGED <<i, cur, outcome, last, season>>
    /\ UNCHANGED <<ncalls, main>>

\* Lines 158-162 with the race results left out: lap times follow qualifying.
QualifyingThenLapTimes ==
    /\ pc = "quali"
    /\ \E r \in {load_qualifying_results(Session, cur.race_id, cur.data.quali)} :
          SubLoader("quali", r, "laps")
do_load_qualifying_results ==
    /\ pc = "quali"
    /\ \E r \in {load_qualifying_results(Session, cur.race_id, cur.data.quali)} :
          SubLoader("quali", r, "results")
do_load_race_results ==
    /\ pc = "results"
    /\ \E r \in {load_race_results(Session, cur.race_id, cur.data.race)} :
          SubLoader("results", r, "laps")
do_load_lap_times_sample ==
    /\ pc = "laps"
    /\ \E r \in {load_lap_times_sample(Session, cur.race_id, cur.data.race)} :
          SubLoader("laps", r, "pits")
do_load_pit_stops ==
    /\ pc = "pits"
    /\ \E r \in {load_pit_stops(Session, cur.race_id, cur.data.race)} :
          SubLoader("pits", r, "weather")
do_load_weather_data ==
    /\ pc = "weather"
    /\ \E r \in {load_weather_data(Session, cur.race_id, cur.data.race)} :
          SubLoader("weather", r, "idle")

\* Lines 326-349: the schedule of the year is fetched, then every event is
\* handed to load_race_weekend in order.  A schedule that cannot be fetched,
\* or that is empty, leaves nothing to do.
load_season(year, provider) ==
    /\ pc = "idle"
    /\ season.todo = <<>>
    /\ season' = IF provider = "schedule" \/ get_event_schedule(year) = <<>>
                 THEN NoSeason
                 ELSE [year |-> year,
                       todo |-> [k \in 1..Len(get_event_schedule(year)) |->
                                    get_event_schedule(year)[k].EventName]]
    /\ UNCHANGED <<db, pending, pc, i, cur, ncalls, steps, failed, outcome,
                   returned, last, log>>

\* ----------------------------------------------------------------------- main
FirstYear == 2015
LastYear == 2025
\* range(a, b) as a list: a, a + 1, ..., b - 1
range(a, b) == [k \in 1..(b - a) |-> a + k - 1]

NoMain == [years |-> <<>>, summary |-> <<>>]

\* Lines 366-371 with the loop left after a season whose last race failed.
RunEndsOnFailure(years) == IF outcome = "error" THEN <<>> ELSE Tail(years)
\* Lines 366-371: the for loop of main goes on to the next year.
next_year(years) == Tail(years)

\* Lines 366-371: main hands the next year to load_season.
main_load_season(provider) ==
    /\ main.years # <<>>
    /\ load_season(Head(main.years), provider)
    /\ main' = [main EXCEPT !.years = next_year(@)]

\* Lines 373-394: the row count of each table, once the loop over the years
\* is over.
main_summary ==
    /\ main.years = <<>>
    /\ main.summary = <<>>
    /\ pc = "idle"
    /\ season.todo = <<>>
    /\ main' = [main EXCEPT !.summary = <<Counts(db)>>]
    /\ UNCHANGED <<db, pending, pc, i, cur, season, ncalls, steps, failed,
                   outcome, returned, last, log>>

\* --------------------------------------------------------------------- specs
Idle ==
    /\ db = NoRows
    /\ pending = NoRows
    /\ pc = "idle"
    /\ i = 1
    /\ cur = NoCall
    /\ season = NoSeason
    /\ ncalls = 0
    /\ steps = <<>>
    /\ failed = {}
    /\ outcome = "none"
    /\ returned = {}
    /\ last = NoRecord
    /\ log = NoLog

\* load_race_weekend and load_season called in any order on an empty store
Init == Idle /\ main = NoMain

Next ==
    \/ \E year \in Years, race_name \in EventNames,
          provider \in ProviderOutcomes, data \in Weekends :
            load_race_weekend(year, race_name, provider, data)
    \/ resolve_driver_and_team
    \/ do_load_qualifying_results
    \/ do_load_race_results
    \/ do_load_lap_times_sample
    \/ do_load_pit_stops
    \/ do_load_weather_data
    \/ \E year \in Years, provider \in {"ok", "schedule"} :
          ncalls < MaxCalls /\ load_season(year, provider) /\ UNCHANGED main

Spec == Init /\ [][Next]_vars

\* one run of main on an empty store, line 364
MainInit == Idle /\ main = [years |-> range(FirstYear, LastYear + 1), summary |-> <<>>]

MainNext ==
    \/ \E provider \in {"ok", "schedule"} : main_load_season(provider)
    \/ \E provider \in ProviderOutcomes, data \in Weekends :
          /\ season.todo # <<>>
          /\ load_race_weekend(season.year, Head(season.todo), provider, data)
    \/ resolve_driver_and_team
    \/ do_load_qualifying_results
    \/ do_load_race_results
    \/ do_load_lap_times_sample
    \/ do_load_pit_stops
    \/ do_load_weather_data
    \/ main_summary

\* One weekend on an empty store whose qualifying time and lap time are any
\* value a cell of the provider's tables can hold.
MaxSeconds == 3
Durations == {Dur(n) : n \in (0 - MaxSeconds)..MaxSeconds}
Cells == Durations \cup {NaNCell, Null, StrCell, Num(5), ListCell}
TimedWeekend(q1, lap_time) ==
    Weekend(<<QualiRow(HAM, Num(1), q1)>>,
            <<ResultRow(HAM, Num(44), RedBull, Num(1))>>,
            <<LapRow(HAM, Num(1), lap_time, FALSE)>>,
            <<>>)

TimesNext ==
    \/ \E q1 \in Cells, lap_time \in Cells :
          /\ ncalls = 0
          /\ load_race_weekend(2023, SpaGP, "ok", TimedWeekend(q1, lap_time))
    \/ resolve_driver_and_team
    \/ do_load_qualifying_results
    \/ do_load_race_results
    \/ do_load_lap_times_sample
    \/ do_load_pit_stops
    \/ do_load_weather_data

TimesSpec == Init /\ [][TimesNext]_vars

\* main is one thread: the step it is at is taken, every provider call and
\* every store call returning or raising.
MainSpec == MainInit /\ [][MainNext]_vars /\ WF_vars(MainNext)

\* ------------------------------------------------------------------ claims
IsPrefix(a, b) == Len(a) <= Len(b) /\ SubSeq(b, 1, Len(a)) = a
\* the transition is an invocation of load_race_weekend, with these arguments
Invoked == ncalls' = ncalls + 1
InvokedKey == IF pc' = "idle" THEN last'.key ELSE <<cur'.year, cur'.race_name>>

\* the transition ends a call of load_race_weekend
Ended == pc' = "idle" /\ (pc # "idle" \/ Invoked)

\* C1 (as claimed): two successive load_race_weekend calls with the same
\* (year, race_name) end with the same row count in each of the nine tables,
\* whatever the outcome of the first call.
C1_SameCountsWhateverFirstOutcome ==
    [][(Ended /\ last'.key = last.key) => last'.counts = last.counts]_vars

\* C1 (amended): two successive load_race_weekend calls with the same
\* (year, race_name) end with the same row count in each of the nine tables,
\* provided the Race row of (year, race_name) is stored when the first call ends.
C1_SameCountsOnceRaceStored ==
    [][(Ended /\ last'.key = last.key /\ last.stored)
         => last'.counts = last.counts]_vars

C1_Witness ==
    /\ pc = "idle"
    /\ last.repeated
    /\ last.stored
    /\ last.counts["lap_times"] > 0
    /\ outcome = "skipped"

\* C2: a load_race_weekend call made while a Race row of its (year, race_name)
\* is stored changes no row of any table, leaves nothing uncommitted in the
\* session, and ends at once, before the race row and every sub-loader.
C2_ExistingRaceNoEffect ==
    [][(Invoked /\ RaceStored(db, InvokedKey))
         => /\ db' = db
            /\ pending' = pending
            /\ pc' = "idle"
            /\ outcome' \in {"skipped", "error"}
            /\ \A k \in 1..Len(steps') : steps'[k] = "circuit"]_vars

C2_Witness ==
    /\ outcome = "skipped"
    /\ steps = <<"circuit">>
    /\ last.stored
    /\ Len(db.drivers) > 0

\* C3: the store never holds two Race rows with the same (year, race_name).
C3_OneRacePerKey ==
    \A a, b \in 1..Len(db.races) :
        a < b => <<db.races[a].year, db.races[a].race_name>>
                    # <<db.races[b].year, db.races[b].race_name>>

C3_Witness ==
    /\ Len(db.races) = 2
    /\ last.repeated
    /\ outcome = "skipped"

KeyRows(kind, key) ==
    CASE kind = "circuit" ->
            {k \in 1..Len(db.circuits) : db.circuits[k].circuit_key = key}
      [] kind = "driver" -> {k \in 1..Len(db.drivers) : db.drivers[k].code = key}
      [] kind = "team" -> {k \in 1..Len(db.teams) : db.teams[k].team_key = key}

\* C4: every resolver call made with a key (and, for a driver, a descriptor)
\* leaves exactly one stored row with the derived key and returns that row, so
\* that all calls with the same derived key return the same id.
C4_OneRowPerKeyReturned ==
    \A c \in returned :
        c.key # <<>> =>
            /\ ~c.raised
            /\ Cardinality(KeyRows(c.kind, c.key)) = 1
            /\ c.id \in KeyRows(c.kind, c.key)

\* C5: every get_or_create_driver call with a non-empty code and a descriptor
\* ends with a Driver row of that code stored and returned.
C5_DriverPersistedAndReturned ==
    \A c \in returned :
        (c.kind = "driver" /\ c.key # <<>>) =>
            /\ c.id # NullId
            /\ c.id <= Len(db.drivers)
            /\ db.drivers[c.id].code = c.key

SubLoaderNames == {"quali", "results", "laps", "pits", "weather"}
NextStep(name) ==
    CASE name = "quali" -> "results" [] name = "results" -> "laps"
      [] name = "laps" -> "pits" [] name = "pits" -> "weather"
      [] name = "weather" -> "idle"
TableOf(name) ==
    CASE name = "quali" -> "qualifying_results" [] name = "results" -> "race_results"
      [] name = "laps" -> "lap_times" [] name = "pits" -> "pit_stops"
      [] name = "weather" -> "weather"
\* the transition is the run of the sub-loader pc names
SubLoaderRan == pc \in SubLoaderNames /\ pc' # pc
AllStored(d, e) == \A t \in Tables : IsPrefix(d[t], e[t])
DriverStored(code) == \E k \in 1..Len(db.drivers) : db.drivers[k].code = code
\* the rows of the batch: one per provider row whose driver is stored
BatchSize(name) ==
    LET race == cur.data.race
    IN  CASE name = "quali" ->
                Len(SelectSeq(cur.data.quali.results,
                              LAMBDA r : DriverStored(r.Abbreviation)))
          [] name = "results" ->
                Len(SelectSeq(race.results, LAMBDA r : DriverStored(r.Abbreviation)))
          [] name = "laps" ->
                Len(SelectSeq(race.laps, LAMBDA l :
                        /\ DriverStored(l.Driver)
                        /\ \E k \in 1..Len(race.results) :
                              race.results[k].Abbreviation = l.Driver))
          [] name = "pits" ->
                Len(SelectSeq(race.laps, LAMBDA l : l.PitOutTime /\ DriverStored(l.Driver)))
          [] name = "weather" ->
                IF race.weather = <<>> THEN 0
                ELSE Cardinality({p \in 0..(Len(Head(race.weather)) - 1) : p % Stride = 0})

\* C6: when a sub-loader fails, every row committed before it is still stored,
\* the next sub-loader in the order is invoked, and a weekend in which a
\* sub-loader failed still runs all five.
C6_FailureKeepsRowsAndOrder ==
    /\ [][(SubLoaderRan /\ pc \in failed')
            => /\ AllStored(db, db')
               /\ RaceStored(db', <<cur.year, cur.race_name>>)
               /\ pc' = NextStep(pc)
               /\ outcome' # "error"]_vars
    /\ []((pc = "idle" /\ failed # {})
            => /\ outcome = "done"
               /\ SubSeq(steps, Len(steps) - 4, Len(steps))
                    = <<"quali", "results", "laps", "pits", "weather">>)

C6_Witness ==
    /\ pc = "idle"
    /\ outcome = "done"
    /\ "quali" \in failed
    /\ "results" \notin failed
    /\ Len(db.race_results) > 0
    /\ Len(db.drivers) = 2

\* C7: a sub-loader run changes its own table only, stores either every row of
\* its batch or none of them, leaves nothing uncommitted in the session, and
\* returns to load_race_weekend, which goes on with the next step.
C7_AllOrNothing ==
    [][SubLoaderRan
         => /\ \A t \in Tables \ {TableOf(pc)} : db'[t] = db[t]
            /\ IsPrefix(db[TableOf(pc)], db'[TableOf(pc)])
            /\ IF pc \in failed'
               THEN db'[TableOf(pc)] = db[TableOf(pc)]
               ELSE Len(db'[TableOf(pc)]) = Len(db[TableOf(pc)]) + BatchSize(pc)
            /\ pending' = NoRows
            /\ pc' = NextStep(pc)
            /\ outcome' # "error"]_vars

C7_Witness ==
    /\ pc = "results"
    /\ "quali" \in failed
    /\ cur.data = WeekendB
    /\ Len(db.drivers) = 2
    /\ db.qualifying_results = <<>>

\* C8: an exception after the race row was committed ends load_race_weekend
\* normally: the Race row and every committed row stay stored and the session
\* holds no uncommitted row.
C8_LateExceptionKeepsCommitted ==
    [][(pc # "idle" /\ outcome' = "error")
         => /\ pc' = "idle"
            /\ AllStored(db, db')
            /\ RaceStored(db', <<cur.year, cur.race_name>>)
            /\ pending' = NoRows]_vars

C8_Witness ==
    /\ pc = "idle"
    /\ outcome = "error"
    /\ last.stored
    /\ steps = <<"circuit", "race", "drivers">>
    /\ Len(db.races) = 2

SessionTables == {"qualifying_results", "race_results", "lap_times", "pit_stops"}
\* C9: every stored QualifyingResult, RaceResult, LapTime and PitStop row has a
\* driver_id of a stored Driver; the rows a sub-loader stores reference drivers
\* stored before it ran, and provider rows whose driver is not stored are dropped.
C9_DriverReferences ==
    /\ [](\A t \in SessionTables : \A k \in 1..Len(db[t]) :
            /\ db[t][k].driver_id # NullId
            /\ \E d \in 1..Len(db.drivers) : db.drivers[d].id = db[t][k].driver_id)
    /\ [][(SubLoaderRan /\ TableOf(pc) \in SessionTables)
            => /\ \A k \in (Len(db[TableOf(pc)]) + 1)..Len(db'[TableOf(pc)]) :
                    \E d \in 1..Len(db.drivers) :
                        db.drivers[d].id = db'[TableOf(pc)][k].driver_id
               /\ Len(db'[TableOf(pc)]) - Len(db[TableOf(pc)]) <= BatchSize(pc)]_vars

C9_Witness ==
    /\ pc = "results"
    /\ cur.data = WeekendA
    /\ "quali" \notin failed
    /\ Len(db.qualifying_results) = 1
    /\ ~DriverStored(SAR)

\* C10: no step changes or removes a stored Circuit, Driver or Team row, and a
\* driver the roster names whose code is stored is returned as stored, whatever
\* the descriptor holds.
C10_ReferenceRowsImmutable ==
    [][/\ \A t \in {"circuits", "drivers", "teams"} : IsPrefix(db[t], db'[t])
       /\ (pc = "drivers" /\ ~Missing(cur.data.race.results[i].Abbreviation)
             /\ DriverStored(strip(cur.data.race.results[i].Abbreviation)))
            => /\ db'.drivers = db.drivers
               /\ \E c \in returned' :
                    /\ c.kind = "driver"
                    /\ ~c.raised
                    /\ c.id \in 1..Len(db.drivers)
                    /\ db.drivers[c.id].code
                         = strip(cur.data.race.results[i].Abbreviation)]_vars

C10_Witness ==
    /\ pc = "quali"
    /\ cur.data = WeekendC
    /\ \E k \in 1..Len(db.drivers) :
          db.drivers[k].code = HAM /\ db.drivers[k].driver_number = Num(44)

MissingKeys == {<<>>, NaNText}
\* C11: get_or_create_driver and get_or_create_team called with an empty or
\* missing key return None without raising and leave the committed rows and
\* the session as they were, in every state and for every roster row met.
C11_MissingKeyReturnsNull ==
    /\ [](\A key \in MissingKeys :
            /\ \A info \in {<<>>, <<ResultRow(key, Num(7), key, Num(1))>>} :
                  get_or_create_driver(Session, key, info) = Result(Session, FALSE, <<>>)
            /\ get_or_create_team(Session, key) = Result(Session, FALSE, <<>>))
    /\ [][pc = "drivers" =>
            LET row == cur.data.race.results[i]
            IN  /\ Missing(row.Abbreviation) =>
                      /\ db'.drivers = db.drivers
                      /\ [kind |-> "driver", key |-> <<>>, raised |-> FALSE,
                          id |-> NullId] \in returned'
                /\ (Missing(row.TeamName) /\ outcome' # "error") =>
                      /\ db'.teams = db.teams
                      /\ [kind |-> "team", key |-> <<>>, raised |-> FALSE,
                          id |-> NullId] \in returned'
                /\ (Missing(row.Abbreviation) /\ Missing(row.TeamName)) =>
                      /\ db' = db
                      /\ pending' = pending
                      /\ outcome' # "error"]_vars

C11_Witness ==
    /\ pc = "quali"
    /\ cur.data = WeekendC
    /\ [kind |-> "driver", key |-> <<>>, raised |-> FALSE, id |-> NullId] \in returned
    /\ [kind |-> "team", key |-> <<>>, raised |-> FALSE, id |-> NullId] \in returned
    /\ DriverStored(HAM)
    /\ ~DriverStored(<<>>)

ScheduleNames(year) ==
    [k \in 1..Len(get_event_schedule(year)) |-> get_event_schedule(year)[k].EventName]
IsSuffix(a, b) == Len(a) <= Len(b) /\ SubSeq(b, Len(b) - Len(a) + 1, Len(b)) = a

\* C12: load_season hands every event of the schedule to load_race_weekend in
\* schedule order: the events left are always a suffix of the schedule, the
\* only step possible while events are left is the call for the first of
\* them, a call that ends, however it ends, leaves exactly the events after
\* it to be attempted, and a schedule that cannot be fetched changes nothing.
C12_EveryEventAttempted ==
    /\ [](season.todo # <<>> => IsSuffix(season.todo, ScheduleNames(season.year)))
    /\ [][(pc = "idle" /\ season.todo # <<>>)
            => /\ Invoked
               /\ InvokedKey = <<season.year, Head(season.todo)>>]_vars
    /\ [][(Ended /\ Len(season.todo) > 1)
            => season' = [year |-> season.year, todo |-> Tail(season.todo)]]_vars
    /\ [][(Ended /\ Len(season.todo) <= 1) => season' = NoSeason]_vars
    /\ [][(season.todo = <<>> /\ season'.todo # <<>>)
            => /\ season'.todo = ScheduleNames(season'.year)
               /\ UNCHANGED <<db, pending, pc, outcome>>]_vars

C12_Witness ==
    /\ pc = "idle"
    /\ outcome = "error"
    /\ last.key = <<2024, MonacoGP>>
    /\ ~last.stored
    /\ season = [year |-> 2024, todo |-> <<MonacoGPHyphen>>]

\* C13: main attempts the years 2015, 2016, ..., 2025 in this order, one
\* load_season per year whatever the races and seasons before it did, the
\* summary is printed only when no year is left and holds the row count of
\* each of the nine tables, and every run ends with the summary printed.
C13_EveryYearThenSummary ==
    /\ [](IsSuffix(main.years, [k \in 1..11 |-> 2014 + k]))
    /\ [][main'.years # main.years
            => /\ main'.years = Tail(main.years)
               /\ season' \in {NoSeason, [year |-> Head(main.years),
                                           todo |-> ScheduleNames(Head(main.years))]}
               /\ UNCHANGED <<db, pending, pc>>]_vars
    /\ [](main.summary # <<>>
            => /\ main.years = <<>>
               /\ pc = "idle"
               /\ season = NoSeason
               /\ DOMAIN Head(main.summary) = Tables
               /\ \A t \in Tables : Head(main.summary)[t] = Len(db[t]))
    /\ <>(main.summary # <<>>)

C13_Witness ==
    /\ main.summary # <<>>
    /\ outcome = "error"
    /\ ncalls = 3
    /\ Head(main.summary)["races"] = 1
    /\ Head(main.summary)["lap_times"] = 0

\* the transition is a run of load_weather_data on a weather series
WeatherLoaded == pc = "weather" /\ pc' # pc /\ cur.data.race.weather # <<>>
\* C14: for a weather series of length L, load_weather_data stores exactly
\* ceil(L/10) Weather rows for the race, those of the samples at indices
\* 0, 10, 20, ... of the series.
C14_CeilTenthStored ==
    [][WeatherLoaded =>
        LET series == Head(cur.data.race.weather)
            n == (Len(series) + 9) \div 10
            old == Len(db.weather)
        IN  /\ Len(db'.weather) = old + n
            /\ \A k \in 1..n :
                  /\ db'.weather[old + k].race_id = cur.race_id
                  /\ db'.weather[old + k].air_temp
                        = IntOrNone(series[10 * (k - 1) + 1].AirTemp)]_vars

\* the same, for the runs of load_weather_data that end without an exception
CeilTenthStoredUnlessFailed ==
    [][(WeatherLoaded /\ "weather" \notin failed') =>
        LET series == Head(cur.data.race.weather)
            n == (Len(series) + 9) \div 10
            old == Len(db.weather)
        IN  /\ Len(db'.weather) = old + n
            /\ \A k \in 1..n :
                  /\ db'.weather[old + k].race_id = cur.race_id
                  /\ db'.weather[old + k].air_temp
                        = IntOrNone(series[10 * (k - 1) + 1].AirTemp)]_vars

\* the value of the second count, None for what is not a duration
Seconds(td) == IF td.tag = "td" THEN Num(td.val) ELSE Null
\* C15: convert_timedelta_to_seconds never raises: the qualifying loader and
\* the lap-time loader, which call it on the Q1 and LapTime cells, end without
\* an exception whatever the two cells hold, and store None for a cell that
\* is missing, NaN/NaT or not a duration and the second count for a duration.
C15_NullNeverRaises ==
    /\ [][(pc = "quali" /\ pc' # pc)
            => /\ "quali" \notin failed'
               /\ Len(db'.qualifying_results) = 1
               /\ db'.qualifying_results[1].q1_time
                    = Seconds(cur.data.quali.results[1].Q1)]_vars
    /\ [][(pc = "laps" /\ pc' # pc)
            => /\ "laps" \notin failed'
               /\ Len(db'.lap_times) = 1
               /\ db'.lap_times[1].lap_time = Seconds(cur.data.race.laps[1].LapTime)]_vars

\* the same, for the cells that are not lists
NullNeverRaisesForScalars ==
    /\ [][(pc = "quali" /\ pc' # pc /\ cur.data.quali.results[1].Q1 # ListCell)
            => /\ "quali" \notin failed'
               /\ Len(db'.qualifying_results) = 1
               /\ db'.qualifying_results[1].q1_time
                    = Seconds(cur.data.quali.results[1].Q1)]_vars
    /\ [][(pc = "laps" /\ pc' # pc /\ cur.data.race.laps[1].LapTime # ListCell)
            => /\ "laps" \notin failed'
               /\ Len(db'.lap_times) = 1
               /\ db'.lap_times[1].lap_time = Seconds(cur.data.race.laps[1].LapTime)]_vars

NonNegativeOrNull(c) == c.tag = "null" \/ (c.tag = "num" /\ c.val >= 0)
\* C16: every stored q1_time (q2_time and q3_time are computed the same way)
\* and every stored lap_time is None or a non-negative number of seconds,
\* whatever durations, negative ones included, the provider supplies.
C16_TimesNonNegative ==
    /\ \A k \in 1..Len(db.qualifying_results) :
          NonNegativeOrNull(db.qualifying_results[k].q1_time)
    /\ \A k \in 1..Len(db.lap_times) : NonNegativeOrNull(db.lap_times[k].lap_time)

StepOrder == <<"circuit", "race", "drivers", "quali", "results", "laps", "pits", "weather">>
\* the latest call has ended and had passed the existence check
PassedExistenceCheck == pc = "idle" /\ Len(steps) >= 1 /\ outcome # "skipped"

\* C17 (as claimed): every run of load_race_weekend that passes the existence
\* check goes through all the steps, in order: race row, drivers/teams,
\* qualifying, race results, lap times, pit stops, weather.
C17_AllStepsInOrder ==
    PassedExistenceCheck => steps = StepOrder

\* C17 (amended): the steps of a run are taken in this order with none skipped
\* in between; a run that passed the existence check stops before the last
\* step only when an exception reached the handler of load_race_weekend, and
\* a run that took the race step has its Race row stored.
C17_StepsInOrderUntilException ==
    /\ [](IsPrefix(steps, StepOrder))
    /\ []((PassedExistenceCheck /\ outcome # "error") => steps = StepOrder)
    /\ []((pc = "idle" /\ outcome = "done") => steps = StepOrder)
    /\ []((pc = "idle" /\ outcome = "skipped") => steps = <<"circuit">>)
    /\ [](pc # "idle" => RaceStored(db, <<cur.year, cur.race_name>>))
    /\ []((pc = "idle" /\ Len(steps) >= 2) => last.stored)
    /\ [][(pc # "idle" /\ pc' # pc /\ outcome' # "error")
            => \E k \in 1..Len(StepOrder) :
                  /\ StepOrder[k] = pc
                  /\ pc' = (IF k < Len(StepOrder) THEN StepOrder[k + 1] ELSE "idle")
                  /\ steps' = SubSeq(StepOrder, 1, k)]_vars

C17_Witness ==
    /\ PassedExistenceCheck
    /\ outcome = "error"
    /\ steps = <<"circuit">>
    /\ ~last.stored
    /\ Len(db.circuits) = 1

\* C18: when load_race_weekend reaches the first sub-loader, every roster row
\* with a non-empty Abbreviation has a stored Driver whose code is the raw
\* Abbreviation, and every roster row with a non-empty TeamName has a stored
\* Team whose name is the raw TeamName.
C18_RosterResolved ==
    pc = "quali" =>
        \A k \in 1..Len(cur.data.race.results) :
            LET row == cur.data.race.results[k]
            IN  /\ ~Missing(row.Abbreviation)
                      => DriverByCode(Session, row.Abbreviation) # <<>>
                /\ ~Missing(row.TeamName) => TeamByName(Session, row.TeamName) # <<>>

\* the same, for the roster rows whose Abbreviation and TeamName are stored
\* as given: no blank at either end
RosterResolvedUnlessPadded ==
    pc = "quali" =>
        \A k \in 1..Len(cur.data.race.results) :
            LET row == cur.data.race.results[k]
            IN  /\ (~Missing(row.Abbreviation) /\ strip(row.Abbreviation) = row.Abbreviation)
                      => DriverByCode(Session, row.Abbreviation) # <<>>
                /\ (~Missing(row.TeamName) /\ strip(row.TeamName) = row.TeamName)
                      => \E n \in 1..Len(db.teams) :
                            db.teams[n].team_key = TeamKey(row.TeamName)

ChildTables == {"qualifying_results", "race_results", "lap_times", "pit_stops", "weather"}
RaceIds(d, key) ==
    {d.races[k].id : k \in {n \in 1..Len(d.races) :
                                <<d.races[n].year, d.races[n].race_name>> = key}}
Children(d, key) ==
    [t \in ChildTables |-> SelectSeq(d[t], LAMBDA r : r.race_id \in RaceIds(d, key))]
\* C19: once a Race row of (year, race_name) is stored and the call that
\* stored it has ended, no step of any later call adds, changes or removes a
\* Race row of that key or a QualifyingResult, RaceResult, LapTime, PitStop or
\* Weather row of that race.
C19_ChildrenFixedOnceEnded ==
    [][\A y \in Years, n \in EventNames :
         (/\ RaceStored(db, <<y, n>>)
          /\ (pc = "idle" \/ <<cur.year, cur.race_name>> # <<y, n>>))
         => /\ RaceIds(db', <<y, n>>) = RaceIds(db, <<y, n>>)
            /\ Children(db', <<y, n>>) = Children(db, <<y, n>>)]_vars

C19_Witness ==
    /\ pc = "idle"
    /\ outcome = "skipped"
    /\ last.repeated
    /\ Len(db.races) = 1
    /\ Len(Children(db, last.key)["lap_times"]) = 1
    /\ Children(db, last.key)["race_results"] = <<>>
    /\ ncalls = 3

\* C20: a provider row with a malformed or missing field (a lap without a
\* LapNumber among them) never aborts the ingestion of the other rows: the
\* sub-loader ends without an exception and stores every row of its batch,
\* the row with the malformed field included.
C20_MalformedFieldKeepsBatch ==
    [][SubLoaderRan
         => /\ pc \notin failed'
            /\ Len(db'[TableOf(pc)]) = Len(db[TableOf(pc)]) + BatchSize(pc)]_vars

\* the transition is a run of load_qualifying_results
QualifyingLoaded == pc = "quali" /\ pc' # pc
\* the qualifying rows of the provider whose driver code is stored
QualifyingKept == SelectSeq(cur.data.quali.results, LAMBDA r : DriverStored(r.Abbreviation))

\* C21: load_qualifying_results stores exactly one QualifyingResult row for
\* each qualifying row of the provider whose driver code is stored, none for
\* a row whose driver is not stored, and the count it reports as loaded is the
\* number of rows it stored.
C21_ReportedCountIsStoredCount ==
    [][QualifyingLoaded =>
        LET old == Len(db.qualifying_results)
        IN  /\ Len(db'.qualifying_results) = old + Len(QualifyingKept)
            /\ \A k \in 1..Len(QualifyingKept) :
                  /\ db'.qualifying_results[old + k].race_id = cur.race_id
                  /\ db'.qualifying_results[old + k].driver_id
                        = Head(DriverByCode(Session, QualifyingKept[k].Abbreviation)).id
            /\ log'.count = <<Len(QualifyingKept)>>]_vars

\* what the runs that end without an exception do: the rows of the stored
\* drivers are stored, and the count reported is that of the provider's rows
ReportedCountIsProviderRowCount ==
    [][(QualifyingLoaded /\ "quali" \notin failed') =>
        /\ Len(db'.qualifying_results)
              = Len(db.qualifying_results) + Len(QualifyingKept)
        /\ log'.count = <<Len(cur.data.quali.results)>>]_vars

\* the transition is a run of load_lap_times_sample
LapTimesLoaded == pc = "laps" /\ pc' # pc

\* C22: load_lap_times_sample stores one LapTime row per recorded lap of every
\* roster driver that is stored, and issues one driver query per roster
\* driver: as many queries as the roster has rows, however many laps there are.
C22_OneLookupPerRosterDriver ==
    [][LapTimesLoaded =>
        LET old == Len(db.lap_times)
        IN  /\ Len(db'.lap_times) = old + BatchSize("laps")
            /\ \A k \in (old + 1)..Len(db'.lap_times) :
                  db'.lap_times[k].race_id = cur.race_id
            /\ log'.lookups = <<Len(cur.data.race.results)>>]_vars

\* the same, for the runs that end without an exception
OneLookupPerRosterDriverUnlessFailed ==
    [][(LapTimesLoaded /\ "laps" \notin failed') =>
        /\ Len(db'.lap_times) = Len(db.lap_times) + BatchSize("laps")
        /\ log'.lookups = <<Len(cur.data.race.results)>>
        /\ log'.count = <<BatchSize("laps")>>]_vars

\* C23: a load_race_weekend call in which the load of the qualifying or of
\* the race session fails ends, without raising, with no Race row of its
\* (year, race_name) stored and nothing uncommitted; a call for a race that
\* has no Race row is never ended by the existence check, so the call that
\* follows for the same race goes past the check and, when the provider
\* answers, stores the Race row and goes on to the roster.
C23_LoadFailureLeavesNoRace ==
    /\ [][(Ended /\ last'.load # "none")
            => /\ outcome' = "error"
               /\ ~RaceStored(db', last'.key)
               /\ db'.races = db.races
               /\ pending' = NoRows]_vars
    /\ [][(Invoked /\ ~RaceStored(db, InvokedKey)) => outcome' # "skipped"]_vars
    /\ [][(Invoked /\ last.load # "none" /\ InvokedKey = last.key)
            => /\ outcome' \in {"running", "error"}
               /\ outcome' = "running"
                    => /\ RaceStored(db', InvokedKey)
                       /\ steps' = <<"circuit", "race">>]_vars
    /\ [](last.retried # "none" => outcome # "skipped")

C23_Witness ==
    /\ pc = "idle"
    /\ outcome = "done"
    /\ last.retried \in {"Q", "R"}
    /\ last.stored
    /\ ncalls = 2
    /\ Len(db.races) = 1
    /\ Len(db.race_results) > 0

\* the tables the step at pc adds rows to
StepTables ==
    CASE pc = "idle" -> {"circuits", "races"}
      [] pc = "drivers" -> {"drivers", "teams"}
      [] OTHER -> {TableOf(pc)}
\* the rows of table t the transition has persisted
Persisted(t) == SubSeq(db'[t], Len(db[t]) + 1, Len(db'[t]))

\* C24: every step (the circuit and race rows of load_race_weekend, a
\* resolver, a sub-loader) starts with no uncommitted row in the shared
\* session, the team resolver after the driver resolver and the race row
\* after the circuit resolver included, so that what a commit persists is
\* what its own step added: rows of the step's tables only, under the id of
\* the running race, and never a row of a step that failed before it.
C24_CommitPersistsOwnRows ==
    /\ [](pending = NoRows)
    /\ [](pc = "drivers" =>
            LET row == cur.data.race.results[i]
                d == get_or_create_driver(Session, row.Abbreviation, <<row>>)
            IN  ~d.raised => d.s.pending = NoRows)
    /\ [](pc = "idle" =>
            \A year \in Years :
                \A k \in 1..Len(get_event_schedule(year)) :
                    LET c == get_or_create_circuit(Session, get_event_schedule(year)[k])
                    IN  ~c.raised => c.s.pending = NoRows)
    /\ [][/\ \A t \in Tables : IsPrefix(db[t], db'[t])
          /\ \A t \in Tables \ StepTables : db'[t] = db[t]
          /\ pc \in SubLoaderNames =>
                /\ pc \in failed' => db' = db
                /\ \A k \in 1..Len(Persisted(TableOf(pc))) :
                      Persisted(TableOf(pc))[k].race_id = cur.race_id
          /\ pc = "idle" =>
                \A k \in 1..Len(Persisted("races")) :
                    <<Persisted("races")[k].year, Persisted("races")[k].race_name>>
                        = InvokedKey]_vars

C24_Witness ==
    /\ pc = "laps"
    /\ cur.data = WeekendB
    /\ "quali" \in failed
    /\ "results" \notin failed
    /\ db.qualifying_results = <<>>
    /\ Len(db.race_results) > 0
    /\ pending = NoRows

\* no event of the year's schedule has the name
Unscheduled(key) ==
    \A k \in 1..Len(get_event_schedule(key[1])) :
        get_event_schedule(key[1])[k].EventName # key[2]

\* C25: a load_race_weekend call whose race_name is not an event of the
\* year's schedule ends at once in the handler, without an exception leaving
\* the call; no resolver is called, no row of any of the nine tables is
\* added, changed or removed and nothing is left uncommitted.
C25_UnscheduledRaceNoEffect ==
    [][(Invoked /\ Unscheduled(InvokedKey))
         => /\ pc' = "idle"
            /\ outcome' = "error"
            /\ steps' = <<>>
            /\ returned' = returned
            /\ db' = db
            /\ pending' = NoRows
            /\ last'.counts = Counts(db)]_vars

C25_Witness ==
    /\ pc = "idle"
    /\ outcome = "error"
    /\ steps = <<>>
    /\ Unscheduled(last.key)
    /\ last.key = <<2023, MonacoGP>>
    /\ ncalls = 2
    /\ Len(db.circuits) = 1
    /\ Len(db.races) = 1
    /\ Len(db.lap_times) > 0

====
